---- MODULE Spec2Model ----
(***************************************************************************)
(* Model of app.py, the UoM PASO redundancy payout calculator.             *)
(*                                                                         *)
(* The script is a Streamlit page: every change of a sidebar widget reruns *)
(* the whole script, which recomputes the Results record from the widget   *)
(* values, renders the KPI cards and stores the KPI values in              *)
(* st.session_state["kpi_prev"].  One action of the model is one widget    *)
(* change together with the rerun it triggers.                             *)
(*                                                                         *)
(* Dates are records [year, month, day] over the proleptic Gregorian       *)
(* calendar, compared as Python compares datetime.date values.             *)
(*                                                                         *)
(* Python floats are modelled as binary floating point numbers with a      *)
(* significand of Precision bits, rounded to nearest (ties to even) after  *)
(* every arithmetic operation, on a grid of 2^-FracBits.  A float is       *)
(* stored as the integer number of grid units it holds.                    *)
(***************************************************************************)
EXTENDS Integers, Sequences, FiniteSets, TLC

VARIABLES
    dob,                 \* sidebar: date of birth
    start_date,          \* sidebar: start of continuous service
    notice_date,         \* sidebar: notice of redundancy date
    annual_salary,       \* sidebar: base salary (float)
    notice_weeks,        \* sidebar: notice pay in weeks (float)
    notice_paid_in_lieu, \* sidebar toggle
    al_days,             \* sidebar: unused annual leave days (float)
    lsl_weeks,           \* sidebar: unused long service leave weeks (float)
    include_al_loading,  \* sidebar toggle
    al_loading_pct,      \* sidebar: annual leave loading, 0.0 .. 1.0
    cap_base,            \* sidebar: tax free cap base amount (float)
    cap_service,         \* sidebar: tax free cap per completed year (float)
    under_pres,          \* sidebar toggle: under preservation age
    etp_tax_u,           \* sidebar: ETP tax rate under preservation age
    etp_tax_o,           \* sidebar: ETP tax rate at/over preservation age
    leave_withholding,   \* sidebar: leave withholding rate
    res,                 \* the Results record of the last run
    kpi_prev,            \* st.session_state["kpi_prev"]
    animated,            \* KPI keys the last run animated
    runs                 \* script runs of the session so far (counted in Spec)

vars == <<dob, start_date, notice_date, annual_salary, notice_weeks,
          notice_paid_in_lieu, al_days, lsl_weeks, include_al_loading,
          al_loading_pct, cap_base, cap_service, under_pres, etp_tax_u,
          etp_tax_o, leave_withholding, res, kpi_prev, animated, runs>>

(***************************************************************************)
(* Bounds of the model                                                     *)
(***************************************************************************)
Precision == 10      \* bits of the significand of a modelled float
FracBits == 4        \* a modelled float is a multiple of 2^-FracBits

Scale == 2 ^ FracBits

(***************************************************************************)
(* Calendar: datetime.date                                                 *)
(***************************************************************************)
IsLeap(y) == (y % 4 = 0 /\ y % 100 # 0) \/ y % 400 = 0

DaysInMonth(y, m) ==
    IF m = 2 THEN (IF IsLeap(y) THEN 29 ELSE 28)
    ELSE IF m \in {4, 6, 9, 11} THEN 30 ELSE 31

Date(y, m, d) == [year |-> y, month |-> m, day |-> d]

IsDate(x) == x.month \in 1..12 /\ x.day \in 1..DaysInMonth(x.year, x.month)

\* the valid dates of the given years, months and days of the month
DatesOf(years, months, days) ==
    {x \in [year : years, month : months, day : days] : IsDate(x)}

\* date.__lt__ : order by (year, month, day)
DateLT(a, b) ==
    \/ a.year < b.year
    \/ a.year = b.year /\ a.month < b.month
    \/ a.year = b.year /\ a.month = b.month /\ a.day < b.day

DateLE(a, b) == a = b \/ DateLT(a, b)

\* Python tuple comparison (m1, d1) < (m2, d2)
PairLT(m1, d1, m2, d2) == m1 < m2 \/ (m1 = m2 /\ d1 < d2)

\* the day after x
NextDay(x) ==
    IF x.day < DaysInMonth(x.year, x.month) THEN Date(x.year, x.month, x.day + 1)
    ELSE IF x.month < 12 THEN Date(x.year, x.month + 1, 1)
    ELSE Date(x.year + 1, 1, 1)

Max(a, b) == IF a >= b THEN a ELSE b
Min(a, b) == IF a <= b THEN a ELSE b

(***************************************************************************)
(* Floats                                                                  *)
(***************************************************************************)
\* the spacing of the floats around the magnitude q (q >= 0, in grid units)
RECURSIVE Ulp(_)
Ulp(q) == IF q < 2 ^ Precision THEN 1 ELSE 2 * Ulp(q \div 2)

\* f + r/d rounded to a whole number, ties to even (0 <= r < d)
HalfEven(f, r, d) ==
    IF 2 * r > d \/ (2 * r = d /\ f % 2 = 1) THEN f + 1 ELSE f

\* num/den grid units rounded to a multiple of u, ties to even
RoundTo(num, d, u) == u * HalfEven(num \div (d * u), num % (d * u), d * u)

\* the float nearest to num/den grid units (num >= 0, den > 0), ties to even
RoundRat(num, den) == RoundTo(num, den, Ulp(num \div den))

Abs(x) == IF x < 0 THEN -x ELSE x
Sgn(x) == IF x < 0 THEN -1 ELSE 1

\* float(n) for an int n
ToFloat(n) == Sgn(n) * RoundRat(Abs(n) * Scale, 1)
\* a + b, a - b, a * b, a / b on floats
FAdd(a, b) == Sgn(a + b) * RoundRat(Abs(a + b), 1)
FSub(a, b) == Sgn(a - b) * RoundRat(Abs(a - b), 1)
FMul(a, b) == Sgn(a) * Sgn(b) * RoundRat(Abs(a) * Abs(b), Scale)
FDiv(a, b) == Sgn(a) * Sgn(b) * RoundRat(Abs(a) * Scale, Abs(b))

\* the float literal whole + quarters/4 (3.0, 0.25, 52.0, ...)
Lit(whole, quarters) == (whole * 4 + quarters) * (Scale \div 4)

(***************************************************************************)
(* Helpers of app.py                                                       *)
(***************************************************************************)
weekly_pay(salary) == FDiv(salary, Lit(52, 0))

\* mutant of full_months_between: the years are not turned into months
full_months_between_years_unscaled(start, end) ==
    IF DateLT(end, start) THEN 0
    ELSE LET months == (end.year - start.year) + (end.month - start.month)
         IN  Max(0, IF end.day < start.day THEN months - 1 ELSE months)

\* mutant of full_months_between: no early return and no floor at 0
full_months_between_unguarded(start, end) ==
    LET months == (end.year - start.year) * 12 + (end.month - start.month)
    IN  IF end.day < start.day THEN months - 1 ELSE months

full_months_between(start, end) ==
    IF DateLT(end, start) THEN 0
    ELSE LET months == (end.year - start.year) * 12 + (end.month - start.month)
         IN  Max(0, IF end.day < start.day THEN months - 1 ELSE months)

years_and_months_from_total(total_months) ==
    [years |-> total_months \div 12, months |-> total_months % 12]

\* mutant of age_on: the birthday itself does not count yet
age_on_after_birthday(birth, on_date) ==
    LET years == on_date.year - birth.year
    IN  IF ~PairLT(birth.month, birth.day, on_date.month, on_date.day)
        THEN years - 1 ELSE years

age_on(birth, on_date) ==
    LET years == on_date.year - birth.year
    IN  IF PairLT(on_date.month, on_date.day, birth.month, birth.day)
        THEN years - 1 ELSE years

\* mutant of raw_weeks: a completed month counts a third of a week
raw_weeks_month_third(yrs, mos, is_45_plus) ==
    LET base_weeks == FAdd(FMul(Lit(3, 0), ToFloat(yrs)), FDiv(ToFloat(mos), Lit(3, 0)))
    IN  FAdd(base_weeks, IF is_45_plus THEN Lit(2, 0) ELSE Lit(0, 0))

\* weeks before the floor and ceiling: base_weeks + (2.0 if is_45_plus else 0.0)
raw_weeks(yrs, mos, is_45_plus) ==
    LET base_weeks == FAdd(FMul(Lit(3, 0), ToFloat(yrs)), FMul(Lit(0, 1), ToFloat(mos)))
    IN  FAdd(base_weeks, IF is_45_plus THEN Lit(2, 0) ELSE Lit(0, 0))

\* mutant of clamp_weeks: the ceiling without the floor
clamp_weeks_no_floor(weeks) ==
    IF weeks > 0 THEN Min(Lit(52, 0), weeks) ELSE weeks

\* if weeks > 0: weeks = max(14.0, min(52.0, weeks))
clamp_weeks(weeks) ==
    IF weeks > 0 THEN Max(Lit(14, 0), Min(Lit(52, 0), weeks)) ELSE weeks

redundancy_weeks_paso_standard(start, notice, birth) ==
    LET ym == years_and_months_from_total(full_months_between(start, notice))
        a == age_on(birth, notice)
        is45 == a >= 45
    IN  [weeks |-> clamp_weeks(raw_weeks(ym.years, ym.months, is45)),
         yrs |-> ym.years, mos |-> ym.months, a |-> a, is_45_plus |-> is45]

tax_free_cap(completed_years, base_override, svc_override) ==
    FAdd(base_override, FMul(svc_override, ToFloat(completed_years)))

(***************************************************************************)
(* The script body: Compute                                                *)
(***************************************************************************)
\* the sidebar widget values of the current state
Widgets ==
    [dob |-> dob, start_date |-> start_date, notice_date |-> notice_date,
     annual_salary |-> annual_salary, notice_weeks |-> notice_weeks,
     notice_paid_in_lieu |-> notice_paid_in_lieu, al_days |-> al_days,
     lsl_weeks |-> lsl_weeks, include_al_loading |-> include_al_loading,
     al_loading_pct |-> al_loading_pct, cap_base |-> cap_base,
     cap_service |-> cap_service, under_pres |-> under_pres,
     etp_tax_u |-> etp_tax_u, etp_tax_o |-> etp_tax_o,
     leave_withholding |-> leave_withholding]

\* mutant of notice_tax_of: the notice is withheld whether or not it is paid in lieu
notice_tax_always(in_lieu, notice_gross, rate) == FMul(notice_gross, rate)

\* notice_tax = 0.0; if not notice_paid_in_lieu: notice_tax = notice_gross * leave_withholding
notice_tax_of(in_lieu, notice_gross, rate) ==
    IF ~in_lieu THEN FMul(notice_gross, rate) ELSE Lit(0, 0)

\* etp_gross = redundancy_gross + (notice_gross if notice_paid_in_lieu else 0.0)
etp_gross_of(in_lieu, redundancy_gross, notice_gross) ==
    FAdd(redundancy_gross, IF in_lieu THEN notice_gross ELSE Lit(0, 0))

\* mutant of etp_taxable_of: no floor at 0
etp_taxable_no_floor(etp_gross, cap) == FSub(etp_gross, cap)

\* etp_taxable = max(0.0, etp_gross - cap)
etp_taxable_of(etp_gross, cap) == Max(Lit(0, 0), FSub(etp_gross, cap))

\* etp_rate = etp_tax_u if under_pres else etp_tax_o; etp_tax = etp_taxable * etp_rate
etp_tax_of(etp_taxable, under, rate_u, rate_o) ==
    FMul(etp_taxable, IF under THEN rate_u ELSE rate_o)

\* total_tax = etp_tax + leave_tax + notice_tax
total_tax_of(etp_tax, leave_tax, notice_tax) == FAdd(FAdd(etp_tax, leave_tax), notice_tax)

\* mutant of total_gross_of: the notice pay is left out of the gross total
total_gross_without_notice(redundancy_gross, notice_gross, leave_gross) ==
    FAdd(redundancy_gross, leave_gross)

\* total_gross = redundancy_gross + notice_gross + leave_gross
total_gross_of(redundancy_gross, notice_gross, leave_gross) ==
    FAdd(FAdd(redundancy_gross, notice_gross), leave_gross)

\* the script's Compute section, in the order of its statements; each
\* operator takes the values computed so far and adds the next ones

\* total_gross, total_tax, total_net
ComputeTotals(r, total_gross, total_tax) ==
    r @@ [total_gross |-> total_gross, total_tax |-> total_tax,
          total_net |-> FSub(total_gross, total_tax)]

\* etp_rate, etp_tax, leave_tax, notice_tax
ComputeTax(w, r) ==
    r @@ [etp_tax |-> etp_tax_of(r.etp_taxable, w.under_pres, w.etp_tax_u, w.etp_tax_o),
          leave_tax |-> FMul(r.leave_gross, w.leave_withholding),
          notice_tax |-> notice_tax_of(w.notice_paid_in_lieu, r.notice_gross,
                                       w.leave_withholding)]

\* etp_taxable
ComputeTaxable(r) ==
    r @@ [etp_taxable |-> etp_taxable_of(r.etp_gross, r.cap)]

\* leave_gross, etp_gross, cap
ComputeEtp(w, r) ==
    r @@ [leave_gross |-> FAdd(FAdd(r.al_gross, r.lsl_gross), r.al_loading_gross),
          etp_gross |-> etp_gross_of(w.notice_paid_in_lieu, r.redundancy_gross,
                                     r.notice_gross),
          cap |-> tax_free_cap(r.service_years, w.cap_base, w.cap_service)]

\* al_loading_gross
ComputeLoading(w, r) ==
    r @@ [al_loading_gross |->
              IF w.include_al_loading THEN FMul(w.al_loading_pct, r.al_gross)
              ELSE Lit(0, 0)]

\* redundancy_gross, notice_gross, al_gross, lsl_gross
ComputeGross(w, r) ==
    r @@ [redundancy_gross |-> FMul(r.redundancy_weeks, r.weekly),
          notice_gross |-> FMul(w.notice_weeks, r.weekly),
          al_gross |-> FMul(w.al_days, r.day_rate),
          lsl_gross |-> FMul(w.lsl_weeks, r.weekly)]

\* w, day_rate and the values redundancy_weeks_paso_standard returns
ComputeRates(wk, red) ==
    [weekly |-> wk, day_rate |-> FDiv(wk, Lit(5, 0)),
     redundancy_weeks |-> red.weeks, service_years |-> red.yrs,
     service_months |-> red.mos, age |-> red.a, is_45_plus |-> red.is_45_plus]

\* the totals of the values r computed before them
WithTotals(r) ==
    ComputeTotals(r, total_gross_of(r.redundancy_gross, r.notice_gross, r.leave_gross),
                  total_tax_of(r.etp_tax, r.leave_tax, r.notice_tax))

\* the Results record the script builds from the widget values w
Compute(w) ==
    WithTotals(ComputeTax(w, ComputeTaxable(ComputeEtp(w, ComputeLoading(w,
        ComputeGross(w, ComputeRates(weekly_pay(w.annual_salary),
            redundancy_weeks_paso_standard(w.start_date, w.notice_date, w.dob))))))))

(***************************************************************************)
(* KPI cards                                                               *)
(***************************************************************************)
KpiKeys == {"weekly_pay", "redundancy_weeks", "unused_al_weeks",
            "unused_lsl_weeks", "gross_total", "net_total"}

\* kpi_now of a run with widget values w and results r
KpiNow(w, r) ==
    [weekly_pay |-> r.weekly, redundancy_weeks |-> r.redundancy_weeks,
     unused_al_weeks |-> FDiv(w.al_days, Lit(5, 0)),
     unused_lsl_weeks |-> w.lsl_weeks,
     gross_total |-> r.total_gross, net_total |-> r.total_net]

\* mutant of Animates: a card is animated only when its value went up
Animates_on_increase(prev, now) == {k \in KpiKeys : prev[k] < now[k]}

\* the keys render_kpi animates: old != new
Animates(prev, now) == {k \in KpiKeys : prev[k] # now[k]}

(***************************************************************************)
(* One run of the script                                                   *)
(***************************************************************************)
\* the rerun a widget change triggers: the script runs on the new widget
\* values, renders the KPI cards against kpi_prev and stores kpi_now
Rerun ==
    /\ res' = Compute(Widgets')
    /\ kpi_prev' = KpiNow(Widgets', res')
    /\ animated' = Animates(kpi_prev, kpi_prev')

\* the state the first run of a session leaves, with widget values w:
\* "kpi_prev" is not in st.session_state, so it is set to kpi_now before
\* the cards are rendered
FirstRun(w) ==
    /\ dob = w.dob
    /\ start_date = w.start_date
    /\ notice_date = w.notice_date
    /\ annual_salary = w.annual_salary
    /\ notice_weeks = w.notice_weeks
    /\ notice_paid_in_lieu = w.notice_paid_in_lieu
    /\ al_days = w.al_days
    /\ lsl_weeks = w.lsl_weeks
    /\ include_al_loading = w.include_al_loading
    /\ al_loading_pct = w.al_loading_pct
    /\ cap_base = w.cap_base
    /\ cap_service = w.cap_service
    /\ under_pres = w.under_pres
    /\ etp_tax_u = w.etp_tax_u
    /\ etp_tax_o = w.etp_tax_o
    /\ leave_withholding = w.leave_withholding
    /\ res = Compute(w)
    /\ kpi_prev = KpiNow(w, res)
    /\ animated = Animates(kpi_prev, kpi_prev)
    /\ runs = 1

(***************************************************************************)
(* Widget changes                                                          *)
(***************************************************************************)
\* each action: the user sets one widget to another value of S, and the script reruns
SetDob(S) ==
    \E v \in S :
        /\ v # dob
        /\ dob' = v
        /\ UNCHANGED <<start_date, notice_date, annual_salary, notice_weeks,
                       notice_paid_in_lieu, al_days, lsl_weeks,
                       include_al_loading, al_loading_pct, cap_base,
                       cap_service, under_pres, etp_tax_u, etp_tax_o,
                       leave_withholding>>
        /\ Rerun

SetStartDate(S) ==
    \E v \in S :
        /\ v # start_date
        /\ start_date' = v
        /\ UNCHANGED <<dob, notice_date, annual_salary, notice_weeks,
                       notice_paid_in_lieu, al_days, lsl_weeks,
                       include_al_loading, al_loading_pct, cap_base,
                       cap_service, under_pres, etp_tax_u, etp_tax_o,
                       leave_withholding>>
        /\ Rerun

SetNoticeDate(S) ==
    \E v \in S :
        /\ v # notice_date
        /\ notice_date' = v
        /\ UNCHANGED <<dob, start_date, annual_salary, notice_weeks,
                       notice_paid_in_lieu, al_days, lsl_weeks,
                       include_al_loading, al_loading_pct, cap_base,
                       cap_service, under_pres, etp_tax_u, etp_tax_o,
                       leave_withholding>>
        /\ Rerun

SetAnnualSalary(S) ==
    \E v \in S :
        /\ v # annual_salary
        /\ annual_salary' = v
        /\ UNCHANGED <<dob, start_date, notice_date, notice_weeks,
                       notice_paid_in_lieu, al_days, lsl_weeks,
                       include_al_loading, al_loading_pct, cap_base,
                       cap_service, under_pres, etp_tax_u, etp_tax_o,
                       leave_withholding>>
        /\ Rerun

SetNoticeWeeks(S) ==
    \E v \in S :
        /\ v # notice_weeks
        /\ notice_weeks' = v
        /\ UNCHANGED <<dob, start_date, notice_date, annual_salary,
                       notice_paid_in_lieu, al_days, lsl_weeks,
                       include_al_loading, al_loading_pct, cap_base,
                       cap_service, under_pres, etp_tax_u, etp_tax_o,
                       leave_withholding>>
        /\ Rerun

SetNoticePaidInLieu(S) ==
    \E v \in S :
        /\ v # notice_paid_in_lieu
        /\ notice_paid_in_lieu' = v
        /\ UNCHANGED <<dob, start_date, notice_date, annual_salary,
                       notice_weeks, al_days, lsl_weeks, include_al_loading,
                       al_loading_pct, cap_base, cap_service, under_pres,
                       etp_tax_u, etp_tax_o, leave_withholding>>
        /\ Rerun

SetAlDays(S) ==
    \E v \in S :
        /\ v # al_days
        /\ al_days' = v
        /\ UNCHANGED <<dob, start_date, notice_date, annual_salary,
                       notice_weeks, notice_paid_in_lieu, lsl_weeks,
                       include_al_loading, al_loading_pct, cap_base,
                       cap_service, under_pres, etp_tax_u, etp_tax_o,
                       leave_withholding>>
        /\ Rerun

SetLslWeeks(S) ==
    \E v \in S :
        /\ v # lsl_weeks
        /\ lsl_weeks' = v
        /\ UNCHANGED <<dob, start_date, notice_date, annual_salary,
                       notice_weeks, notice_paid_in_lieu, al_days,
                       include_al_loading, al_loading_pct, cap_base,
                       cap_service, under_pres, etp_tax_u, etp_tax_o,
                       leave_withholding>>
        /\ Rerun

SetIncludeAlLoading(S) ==
    \E v \in S :
        /\ v # include_al_loading
        /\ include_al_loading' = v
        /\ UNCHANGED <<dob, start_date, notice_date, annual_salary,
                       notice_weeks, notice_paid_in_lieu, al_days, lsl_weeks,
                       al_loading_pct, cap_base, cap_service, under_pres,
                       etp_tax_u, etp_tax_o, leave_withholding>>
        /\ Rerun

SetAlLoadingPct(S) ==
    \E v \in S :
        /\ v # al_loading_pct
        /\ al_loading_pct' = v
        /\ UNCHANGED <<dob, start_date, notice_date, annual_salary,
                       notice_weeks, notice_paid_in_lieu, al_days, lsl_weeks,
                       include_al_loading, cap_base, cap_service, under_pres,
                       etp_tax_u, etp_tax_o, leave_withholding>>
        /\ Rerun

SetCapBase(S) ==
    \E v \in S :
        /\ v # cap_base
        /\ cap_base' = v
        /\ UNCHANGED <<dob, start_date, notice_date, annual_salary,
                       notice_weeks, notice_paid_in_lieu, al_days, lsl_weeks,
                       include_al_loading, al_loading_pct, cap_service,
                       under_pres, etp_tax_u, etp_tax_o, leave_withholding>>
        /\ Rerun

SetCapService(S) ==
    \E v \in S :
        /\ v # cap_service
        /\ cap_service' = v
        /\ UNCHANGED <<dob, start_date, notice_date, annual_salary,
                       notice_weeks, notice_paid_in_lieu, al_days, lsl_weeks,
                       include_al_loading, al_loading_pct, cap_base,
                       under_pres, etp_tax_u, etp_tax_o, leave_withholding>>
        /\ Rerun

SetUnderPres(S) ==
    \E v \in S :
        /\ v # under_pres
        /\ under_pres' = v
        /\ UNCHANGED <<dob, start_date, notice_date, annual_salary,
                       notice_weeks, notice_paid_in_lieu, al_days, lsl_weeks,
                       include_al_loading, al_loading_pct, cap_base,
                       cap_service, etp_tax_u, etp_tax_o, leave_withholding>>
        /\ Rerun

SetEtpTaxU(S) ==
    \E v \in S :
        /\ v # etp_tax_u
        /\ etp_tax_u' = v
        /\ UNCHANGED <<dob, start_date, notice_date, annual_salary,
                       notice_weeks, notice_paid_in_lieu, al_days, lsl_weeks,
                       include_al_loading, al_loading_pct, cap_base,
                       cap_service, under_pres, etp_tax_o, leave_withholding>>
        /\ Rerun

SetEtpTaxO(S) ==
    \E v \in S :
        /\ v # etp_tax_o
        /\ etp_tax_o' = v
        /\ UNCHANGED <<dob, start_date, notice_date, annual_salary,
                       notice_weeks, notice_paid_in_lieu, al_days, lsl_weeks,
                       include_al_loading, al_loading_pct, cap_base,
                       cap_service, under_pres, etp_tax_u, leave_withholding>>
        /\ Rerun

SetLeaveWithholding(S) ==
    \E v \in S :
        /\ v # leave_withholding
        /\ leave_withholding' = v
        /\ UNCHANGED <<dob, start_date, notice_date, annual_salary,
                       notice_weeks, notice_paid_in_lieu, al_days, lsl_weeks,
                       include_al_loading, al_loading_pct, cap_base,
                       cap_service, under_pres, etp_tax_u, etp_tax_o>>
        /\ Rerun

\* the download button: a rerun on unchanged widget values
Download ==
    /\ UNCHANGED <<dob, start_date, notice_date, annual_salary, notice_weeks,
                   notice_paid_in_lieu, al_days, lsl_weeks, include_al_loading,
                   al_loading_pct, cap_base, cap_service, under_pres, etp_tax_u,
                   etp_tax_o, leave_withholding>>
    /\ Rerun

(***************************************************************************)
(* Widget values the specifications draw from                              *)
(***************************************************************************)
\* the cash and tax widgets at fixed values
FixedCash ==
    [annual_salary |-> Lit(1000, 0), notice_weeks |-> Lit(8, 0),
     notice_paid_in_lieu |-> TRUE, al_days |-> Lit(5, 0), lsl_weeks |-> Lit(4, 0),
     include_al_loading |-> FALSE, al_loading_pct |-> Lit(0, 1),
     cap_base |-> Lit(100, 0), cap_service |-> Lit(50, 0), under_pres |-> TRUE,
     etp_tax_u |-> Lit(0, 1), etp_tax_o |-> Lit(0, 1), leave_withholding |-> Lit(0, 1)]

WithDates(cash, d, s, n) ==
    [dob |-> d, start_date |-> s, notice_date |-> n,
     annual_salary |-> cash.annual_salary, notice_weeks |-> cash.notice_weeks,
     notice_paid_in_lieu |-> cash.notice_paid_in_lieu, al_days |-> cash.al_days,
     lsl_weeks |-> cash.lsl_weeks, include_al_loading |-> cash.include_al_loading,
     al_loading_pct |-> cash.al_loading_pct, cap_base |-> cash.cap_base,
     cap_service |-> cash.cap_service, under_pres |-> cash.under_pres,
     etp_tax_u |-> cash.etp_tax_u, etp_tax_o |-> cash.etp_tax_o,
     leave_withholding |-> cash.leave_withholding]

\* the widgets' default dates of birth and of start (value=date(...))
DefaultDob == Date(1992, 8, 12)
DefaultStart == Date(2021, 10, 11)

(***************************************************************************)
(* SpecAge: the date of birth and the notice date change                   *)
(***************************************************************************)
AgeDobDates ==
    DatesOf({1979, 1980}, {1, 2, 3, 12}, {1, 28, 29, 31})
        \cup {Date(1994, 1, 1), DefaultDob, Date(2025, 6, 15)}
AgeNoticeDates ==
    DatesOf({2024, 2025}, 1..12, {1})
        \cup DatesOf({2024, 2025}, {1, 2, 3, 12}, {28, 29, 31})

\* service of nine to eleven years, so that the weeks lie inside the band
InitAge == FirstRun(WithDates(FixedCash, DefaultDob, Date(2015, 1, 1), Date(2025, 1, 1)))

NextAge ==
    \/ UNCHANGED runs /\ SetDob(AgeDobDates)
    \/ UNCHANGED runs /\ SetNoticeDate(AgeNoticeDates)

SpecAge == InitAge /\ [][NextAge]_vars

(***************************************************************************)
(* SpecService: the three dates change, the length of service from no      *)
(* service to more than twenty years                                       *)
(***************************************************************************)
ServiceDobDates == {Date(1994, 1, 1), Date(1975, 6, 15), Date(1980, 2, 29)}
ServiceStartDates ==
    DatesOf({2004, 2015, 2021}, {1, 10}, {1, 11, 31})
        \cup DatesOf({2024}, {1, 2, 3}, {1, 29, 31})
ServiceNoticeDates ==
    DatesOf({2024, 2025}, 1..12, {1})
        \cup DatesOf({2024}, {1, 2, 3, 10}, {11, 29, 31})

InitService == FirstRun(WithDates(FixedCash, Date(1994, 1, 1), DefaultStart, Date(2025, 1, 1)))

NextService ==
    \/ UNCHANGED runs /\ SetDob(ServiceDobDates)
    \/ UNCHANGED runs /\ SetStartDate(ServiceStartDates)
    \/ UNCHANGED runs /\ SetNoticeDate(ServiceNoticeDates)

SpecService == InitService /\ [][NextService]_vars

(***************************************************************************)
(* SpecMonths: start and notice dates around the ends of months of 28, 29, *)
(* 30 and 31 days, the notice date before and after the start date         *)
(***************************************************************************)
WindowMonths == 6    \* the notice dates of 2024 run from January to this month

MonthsDays == {1, 14, 15, 16, 27, 28, 29, 30, 31}
MonthsStartDates ==
    DatesOf({2024}, {1, 2, 3}, {1, 15, 28, 29, 30, 31}) \cup {Date(2023, 12, 31)}
MonthsNoticeDates ==
    DatesOf({2023}, {11, 12}, MonthsDays)
        \cup DatesOf({2024}, 1..WindowMonths, MonthsDays)
        \cup DatesOf({2025}, {1, 2, 3}, MonthsDays)

InitMonths ==
    FirstRun(WithDates(FixedCash, DefaultDob, Date(2024, 1, 31), Date(2024, 1, 31)))

NextMonths ==
    \/ UNCHANGED runs /\ SetStartDate(MonthsStartDates)
    \/ UNCHANGED runs /\ SetNoticeDate(MonthsNoticeDates)

SpecMonths == InitMonths /\ [][NextMonths]_vars

(***************************************************************************)
(* SpecTax: the cash and tax widgets change; the service is none or three  *)
(* years                                                                   *)
(***************************************************************************)
TaxSalaries == {Lit(1000, 0), Lit(3000, 0)}
TaxNoticeWeeks == {Lit(0, 0), Lit(8, 0)}
TaxAlDays == {Lit(0, 0), Lit(5, 0)}
TaxCapBases == {Lit(0, 0), Lit(100, 0), Lit(5000, 0)}
TaxCapServices == {Lit(0, 0), Lit(50, 0)}
TaxEtpRates == {Lit(0, 1), Lit(1, 0)}
TaxLeaveRates == {Lit(0, 0), Lit(0, 1), Lit(1, 0)}
TaxNoticeDates == {Date(2021, 1, 1), Date(2024, 1, 1)}

InitTax ==
    FirstRun(WithDates(FixedCash, DefaultDob, Date(2021, 1, 1), Date(2024, 1, 1)))

NextTax ==
    \/ UNCHANGED runs /\ SetAnnualSalary(TaxSalaries)
    \/ UNCHANGED runs /\ SetNoticeWeeks(TaxNoticeWeeks)
    \/ UNCHANGED runs /\ SetNoticePaidInLieu(BOOLEAN)
    \/ UNCHANGED runs /\ SetAlDays(TaxAlDays)
    \/ UNCHANGED runs /\ SetIncludeAlLoading(BOOLEAN)
    \/ UNCHANGED runs /\ SetCapBase(TaxCapBases)
    \/ UNCHANGED runs /\ SetCapService(TaxCapServices)
    \/ UNCHANGED runs /\ SetUnderPres(BOOLEAN)
    \/ UNCHANGED runs /\ SetEtpTaxU(TaxEtpRates)
    \/ UNCHANGED runs /\ SetLeaveWithholding(TaxLeaveRates)
    \/ UNCHANGED runs /\ SetNoticeDate(TaxNoticeDates)

SpecTax == InitTax /\ [][NextTax]_vars

(***************************************************************************)
(* Spec: a session of at most MaxRuns script runs in which any widget      *)
(* changes or the download button is pressed                               *)
(***************************************************************************)
MaxRuns == 3

Init == FirstRun(WithDates(FixedCash, DefaultDob, DefaultStart, Date(2025, 1, 1)))

\* one more script run, while the session has run fewer than MaxRuns times
Counted == runs < MaxRuns /\ runs' = runs + 1

Next ==
    \/ Counted /\ SetDob({DefaultDob, Date(1975, 6, 15)})
    \/ Counted /\ SetStartDate({DefaultStart, Date(2015, 1, 1)})
    \/ Counted /\ SetNoticeDate({Date(2025, 1, 1), Date(2024, 1, 1)})
    \/ Counted /\ SetAnnualSalary(TaxSalaries)
    \/ Counted /\ SetNoticeWeeks(TaxNoticeWeeks)
    \/ Counted /\ SetNoticePaidInLieu(BOOLEAN)
    \/ Counted /\ SetAlDays(TaxAlDays)
    \/ Counted /\ SetLslWeeks({Lit(0, 0), Lit(4, 0)})
    \/ Counted /\ SetIncludeAlLoading(BOOLEAN)
    \/ Counted /\ SetAlLoadingPct({Lit(0, 1), Lit(0, 2)})
    \/ Counted /\ SetCapBase(TaxCapBases)
    \/ Counted /\ SetCapService(TaxCapServices)
    \/ Counted /\ SetUnderPres(BOOLEAN)
    \/ Counted /\ SetEtpTaxU(TaxEtpRates)
    \/ Counted /\ SetEtpTaxO(TaxEtpRates)
    \/ Counted /\ SetLeaveWithholding(TaxLeaveRates)
    \/ Counted /\ Download

Spec == Init /\ [][Next]_vars

(***************************************************************************)
(* Claims on the redundancy weeks and the age                              *)
(***************************************************************************)
\* the weeks of the last run in quarters of a week, for a whole number of quarters
WeeksAre(quarters) == res.redundancy_weeks * 4 = quarters * Scale

\* C1: the redundancy weeks the script computes are either exactly 0 or lie
\* in the band 14 <= weeks <= 52, whatever the three dates
C1_WeeksZeroOrInBand ==
    \/ res.redundancy_weeks = 0
    \/ Lit(14, 0) <= res.redundancy_weeks /\ res.redundancy_weeks <= Lit(52, 0)

\* C1 witness: one completed month of service (raw weeks 0.25) is raised to 14
C1_Witness ==
    /\ res.service_years = 0 /\ res.service_months = 1 /\ ~res.is_45_plus
    /\ res.redundancy_weeks = Lit(14, 0)

\* C2 (as claimed): with start == notice date the weeks are 0 for every date of birth
C2_ZeroServiceZeroWeeks ==
    start_date = notice_date => res.redundancy_weeks = 0

\* C3: the weeks are raw = 3*Y + 0.25*M + (2 if age >= 45 else 0), clamped to
\* [14, 52] when raw > 0 and 0 otherwise (in quarters of a week: 12*Y + M + 8,
\* clamped to [56, 208]); 3 years at age 30 give 14, 9 years at age 30 give 27,
\* 20 years give 52
C3_WeeksFormula ==
    LET Y == res.service_years
        M == res.service_months
        rawQ == 12 * Y + M + (IF res.age >= 45 THEN 8 ELSE 0)
    IN  /\ Y >= 0 /\ M \in 0..11
        /\ Y * 12 + M = full_months_between(start_date, notice_date)
        /\ WeeksAre(IF rawQ > 0 THEN Max(56, Min(208, rawQ)) ELSE 0)
        /\ (Y = 3 /\ M = 0 /\ res.age = 30) => res.redundancy_weeks = Lit(14, 0)
        /\ (Y = 9 /\ M = 0 /\ res.age = 30) => res.redundancy_weeks = Lit(27, 0)
        /\ (Y = 20 /\ M = 0) => res.redundancy_weeks = Lit(52, 0)

\* C3 witness: start 2015-01-01, notice 2024-01-01, born 1994-01-01: 27 weeks
C3_Witness ==
    /\ start_date = Date(2015, 1, 1) /\ notice_date = Date(2024, 1, 1)
    /\ dob = Date(1994, 1, 1)
    /\ res.service_years = 9 /\ res.age = 30 /\ res.redundancy_weeks = Lit(27, 0)

\* the 45th birthday of someone born on b (29 February stays 29 February:
\* the comparison is by year, month and day)
Birthday45(b) == [year |-> b.year + 45, month |-> b.month, day |-> b.day]

\* C4: the 45+ flag is set, and 2 weeks are added to the raw weeks, exactly
\* when the notice date is on or after the 45th birthday; with the notice
\* on the 45th birthday, a date of birth one day later clears the flag and
\* takes the 2 weeks away
C4_Age45Boundary ==
    /\ [](LET over == DateLE(Birthday45(dob), notice_date)
              rawQ == 12 * res.service_years + res.service_months
                          + (IF over THEN 8 ELSE 0)
          IN  /\ res.is_45_plus = over
              /\ res.is_45_plus = (res.age >= 45)
              /\ WeeksAre(IF rawQ > 0 THEN Max(56, Min(208, rawQ)) ELSE 0))
    /\ [][(/\ notice_date' = notice_date
           /\ start_date' = start_date
           /\ notice_date = Birthday45(dob)
           /\ dob' = NextDay(dob))
          => (/\ res.is_45_plus /\ res.age = 45
              /\ ~res'.is_45_plus /\ res'.age = 44
              /\ res'.redundancy_weeks = res.redundancy_weeks - Lit(2, 0))]_vars

\* C4 witness: the notice date is the 45th birthday of someone born the day
\* before dob, and the run has left the flag clear
C4_Witness ==
    /\ \E b \in AgeDobDates : NextDay(b) = dob /\ Birthday45(b) = notice_date
    /\ ~res.is_45_plus /\ res.age = 44
    /\ Lit(14, 0) < res.redundancy_weeks /\ res.redundancy_weeks < Lit(50, 0)

\* C6 (as claimed): the age on the notice date is never negative
C6_AgeNonNegative == res.age >= 0

(***************************************************************************)
(* Claims on the completed months                                          *)
(***************************************************************************)
\* C8: with the start date unchanged, moving the notice date to the same or
\* a later date never lowers the completed months (12 * years + months) of
\* the run, across month ends of every length and for start days 28 to 31
C8_MonthsMonotone ==
    [][(start_date' = start_date /\ DateLE(notice_date, notice_date'))
       => 12 * res'.service_years + res'.service_months
              >= 12 * res.service_years + res.service_months]_vars

\* C8 witness: start 31 January 2024, notice 1 March 2024: one completed
\* month, none having been completed on 29 February
C8_Witness ==
    /\ start_date = Date(2024, 1, 31) /\ notice_date = Date(2024, 3, 1)
    /\ res.service_years = 0 /\ res.service_months = 1
    /\ full_months_between(start_date, Date(2024, 2, 29)) = 0

\* C9: a notice date before the start date gives 0 years and 0 months of
\* service
C9_OutOfOrderZero ==
    DateLT(notice_date, start_date)
        => res.service_years = 0 /\ res.service_months = 0

\* C9 witness: the notice date lies in an earlier year than the start date
\* and the run has computed no service
C9_Witness ==
    /\ notice_date.year < start_date.year
    /\ notice_date.day < start_date.day
    /\ res.service_years = 0 /\ res.service_months = 0

(***************************************************************************)
(* Claims on the tax estimate                                              *)
(***************************************************************************)
\* what the notice pay adds to etp_tax: etp_tax less the ETP tax of the
\* same run with the notice pay left out of the ETP pool
NoticeShareOfEtpTax ==
    res.etp_tax
        - etp_tax_of(etp_taxable_of(etp_gross_of(FALSE, res.redundancy_gross,
                                                 res.notice_gross), res.cap),
                     under_pres, etp_tax_u, etp_tax_o)

\* C5 (as claimed): with noticeGross > 0, exactly one of the two notice tax
\* paths produces a non-zero amount: the notice's share of etpTax or
\* noticeTax, never both and never neither
C5_ExactlyOneNonZero ==
    res.notice_gross > 0 => ((NoticeShareOfEtpTax # 0) # (res.notice_tax # 0))

\* C5 (amended): with noticeGross > 0 the notice pay goes down exactly one
\* of the two paths: paid in lieu it is inside etpGross and noticeTax is 0;
\* otherwise it is outside etpGross, adds nothing to etpTax, and noticeTax
\* is noticeGross * leaveWithholdingRate.  The two amounts are never both
\* non-zero (they can both be zero)
C5_OnePathTaken ==
    res.notice_gross > 0 =>
        /\ ~(NoticeShareOfEtpTax # 0 /\ res.notice_tax # 0)
        /\ notice_paid_in_lieu =>
              /\ res.etp_gross = FAdd(res.redundancy_gross, res.notice_gross)
              /\ res.notice_tax = 0
        /\ ~notice_paid_in_lieu =>
              /\ res.etp_gross = res.redundancy_gross
              /\ NoticeShareOfEtpTax = 0
              /\ res.notice_tax = FMul(res.notice_gross, leave_withholding)

\* C5 witness: notice not paid in lieu, withheld at a positive rate, while
\* the ETP pool (redundancy pay alone) is taxed as well
C5_Witness ==
    /\ res.notice_gross > 0 /\ ~notice_paid_in_lieu
    /\ res.notice_tax > 0 /\ res.etp_tax > 0 /\ NoticeShareOfEtpTax = 0

\* C7 (as claimed): no monetary output is negative
C7_NoNegativeMoney ==
    /\ res.weekly >= 0 /\ res.day_rate >= 0
    /\ res.redundancy_gross >= 0 /\ res.notice_gross >= 0
    /\ res.al_gross >= 0 /\ res.lsl_gross >= 0 /\ res.al_loading_gross >= 0
    /\ res.leave_gross >= 0 /\ res.etp_gross >= 0 /\ res.cap >= 0
    /\ res.etp_taxable >= 0 /\ res.etp_tax >= 0 /\ res.leave_tax >= 0
    /\ res.notice_tax >= 0 /\ res.total_gross >= 0 /\ res.total_tax >= 0
    /\ res.total_net >= 0

\* C10: taxableEtp is max(0, etpGross - cap) with cap = capBase +
\* capPerServiceYear * completedYears, and whenever etpGross <= cap both
\* taxableEtp and etpTax are 0, whichever ETP rate is selected
C10_TaxableEtpFloor ==
    /\ res.service_years = full_months_between(start_date, notice_date) \div 12
    /\ res.cap = FAdd(cap_base, FMul(cap_service, ToFloat(res.service_years)))
    /\ res.etp_taxable = Max(0, FSub(res.etp_gross, res.cap))
    /\ res.etp_taxable >= 0
    /\ res.etp_gross <= res.cap => res.etp_taxable = 0 /\ res.etp_tax = 0

\* C10 witness: a positive ETP pool under a cap that has a per-year part,
\* with a positive ETP rate selected: nothing taxable, no ETP tax
C10_Witness ==
    /\ res.etp_gross > 0 /\ res.etp_gross <= res.cap
    /\ res.service_years > 0 /\ cap_service > 0
    /\ (IF under_pres THEN etp_tax_u ELSE etp_tax_o) > 0
    /\ res.etp_taxable = 0 /\ res.etp_tax = 0

\* C11: totalNet is totalGross - totalTax (the float subtraction the script
\* performs) and totalTax >= 0, where totalGross is redundancyGross +
\* noticeGross + leaveGross, the notice pay included whether or not it is
\* paid in lieu, and totalTax is etpTax + leaveTax + noticeTax
C11_TotalsIdentity ==
    /\ res.total_net = FSub(res.total_gross, res.total_tax)
    /\ res.total_tax >= 0
    /\ res.total_gross =
           FAdd(FAdd(res.redundancy_gross, res.notice_gross), res.leave_gross)
    /\ res.total_tax = FAdd(FAdd(res.etp_tax, res.leave_tax), res.notice_tax)

\* C11 witness: notice worked out (not in lieu), and each of the three
\* gross parts and each of the three taxes is positive
C11_Witness ==
    /\ ~notice_paid_in_lieu
    /\ res.redundancy_gross > 0 /\ res.notice_gross > 0 /\ res.leave_gross > 0
    /\ res.etp_tax > 0 /\ res.leave_tax > 0 /\ res.notice_tax > 0
    /\ res.total_gross > FAdd(res.redundancy_gross, res.leave_gross)
    /\ res.total_net = FSub(res.total_gross, res.total_tax)

====
